---- MODULE Spec2Model ----
(***************************************************************************)
(* Schema introspection and DDL synthesis of aws_sql_editor:               *)
(*   aws_db.py  aws_db_connection.execute / list_tables / table_schema /   *)
(*              list_table_schemas                                         *)
(*              connect_to / _get_or_create_connection                     *)
(*   app.py     _exec, api_sql, api_table_schemas, api_connect_to, healthz *)
(* The database catalog is the environment: it is read by the queries the  *)
(* code issues and changed only by other clients of the database.          *)
(***************************************************************************)
EXTENDS Integers, Sequences, FiniteSets, TLC

VARIABLES
    catalog,      \* the connected database: relations, inheritance links, pg_proc
    pc,           \* position of the request being handled ("idle" between requests)
    req,          \* local variables of the request being handled
    resp,         \* what the last finished request returned or raised
    openCursors,  \* cursors of db.conn that are open
    envSteps,     \* catalog changes made by other clients so far
    server,       \* the other databases of the server: name -> catalog
    conn,         \* db.conn: which connection it is, to which database, open or closed
    current_db,   \* app._current_db
    connReq,      \* position of the POST /api/connect request being handled
    cursorConn,   \* the connection the cursor of api_table_schemas was opened on
    readFrom      \* the databases the request being handled has read, by part

connVars == <<server, conn, current_db, connReq, cursorConn, readFrom>>

vars == <<catalog, pc, req, resp, openCursors, envSteps, connVars>>

(***************************************************************************)
(* Bounds                                                                  *)
(***************************************************************************)
MaxCols == 2        \* columns of a table in the DDL universe
MaxConNames == 2    \* constraint names are 1..MaxConNames
MaxTextLen == 2     \* characters of a text returned by pg_get_tabledef
MaxEnvSteps == 1    \* catalog changes by other clients during one behaviour
MaxConnects == 2    \* connections opened by connect_to during one behaviour

\* Relation names of the schema, ordered as ORDER BY and sorted() order them.
RelNames == {1, 2, 3}
ConNames == 1..MaxConNames
ColNames == <<"a", "b", "c", "d">>

None == "None"      \* Python None / SQL NULL

(***************************************************************************)
(* Catalog values                                                          *)
(***************************************************************************)
IdentityKinds == {"", "a", "d"}                 \* pg_attribute.attidentity
Contypes == {"p", "u", "f", "c", "x"}           \* pg_constraint.contype

\* pg_get_constraintdef(oid, true): text rendered by the engine, by kind.
condefOf(contype) ==
    CASE contype = "p" -> "PRIMARY KEY (a)"
      [] contype = "u" -> "UNIQUE (a)"
      [] contype = "f" -> "FOREIGN KEY (a) REFERENCES self(a)"
      [] contype = "c" -> "CHECK (a > 0)"
      [] contype = "x" -> "EXCLUDE USING gist (a WITH =)"

\* Byte value of a "char" contype; ORDER BY contype compares these.
contypeCode(contype) ==
    CASE contype = "c" -> 99
      [] contype = "f" -> 102
      [] contype = "p" -> 112
      [] contype = "u" -> 117
      [] contype = "x" -> 120

NoRel == [relkind |-> "-"]

\* A relation of relkind r (table), p (partitioned table), f (foreign table)
\* or m (materialized view).
Rel(relkind, cols, cons, partstrat, partattrs, relpartbound, indexes) ==
    [relkind |-> relkind, cols |-> cols, cons |-> cons, partstrat |-> partstrat,
     partattrs |-> partattrs, relpartbound |-> relpartbound, indexes |-> indexes]

\* information_schema.tables.table_type = 'BASE TABLE'
IsBaseTable(cat, t) == t \in RelNames /\ cat.rels[t].relkind \in {"r", "p"}

(***************************************************************************)
(* Sorting, as ORDER BY and sorted() do                                    *)
(***************************************************************************)
RECURSIVE SortNums(_)
SortNums(S) ==
    IF S = {} THEN <<>>
    ELSE LET m == CHOOSE x \in S : \A y \in S : x <= y
         IN <<m>> \o SortNums(S \ {m})

\* ORDER BY contype DESC, conname
ConstraintBefore(c1, c2) ==
    \/ contypeCode(c1.contype) > contypeCode(c2.contype)
    \/ c1.contype = c2.contype /\ c1.conname < c2.conname

RECURSIVE OrderConstraints(_)
OrderConstraints(S) ==
    IF S = {} THEN <<>>
    ELSE LET m == CHOOSE x \in S : \A y \in S \ {x} : ConstraintBefore(x, y)
         IN <<m>> \o OrderConstraints(S \ {m})

(***************************************************************************)
(* aws_db.py: table_schema                                                 *)
(***************************************************************************)
\* sql.Identifier(name).as_string(conn): the name, quoted.
Ident(name) == [k |-> "ident", v |-> name]
Word(w) == [k |-> "word", v |-> w]
Default(expr) == [k |-> "default", v |-> expr]

\* Python truth of a text or None value.
Truthy(v) == v # None /\ v # ""

\* ColumnParts with the default rendered whenever there is one.
ColumnPartsDefaultAlways(col) ==
    <<Ident(col.attname), Word(col.data_type)>>
    \o (IF col.identity_kind \in {"a", "d"}
        THEN <<Word(IF col.identity_kind = "a"
                    THEN "GENERATED ALWAYS AS IDENTITY"
                    ELSE "GENERATED BY DEFAULT AS IDENTITY")>>
        ELSE <<>>)
    \o (IF Truthy(col.default_expr) THEN <<Default(col.default_expr)>> ELSE <<>>)
    \o (IF col.not_null THEN <<Word("NOT NULL")>> ELSE <<>>)

\* One column line: name type [identity | default] [NOT NULL].
ColumnParts(col) ==
    <<Ident(col.attname), Word(col.data_type)>>
    \o (IF col.identity_kind \in {"a", "d"}
        THEN <<Word(IF col.identity_kind = "a"
                    THEN "GENERATED ALWAYS AS IDENTITY"
                    ELSE "GENERATED BY DEFAULT AS IDENTITY")>>
        ELSE IF Truthy(col.default_expr)
             THEN <<Default(col.default_expr)>>
             ELSE <<>>)
    \o (IF col.not_null THEN <<Word("NOT NULL")>> ELSE <<>>)

\* One constraint line: CONSTRAINT name definition.
ConstraintParts(con) ==
    <<Word("CONSTRAINT"), Ident(con.conname), Word(con.condef)>>

\* rstrip that removes one trailing semicolon only.
rstripOnce(s) ==
    IF Len(s) > 0 /\ s[Len(s)] = ";" THEN SubSeq(s, 1, Len(s) - 1) ELSE s

\* str.rstrip(";")
RECURSIVE rstrip(_)
rstrip(s) ==
    IF Len(s) > 0 /\ s[Len(s)] = ";" THEN rstrip(SubSeq(s, 1, Len(s) - 1)) ELSE s

\* _redshift_pg_get_tabledef_available: COUNT(*) of pg_proc rows named pg_get_tabledef.
redshift_pg_get_tabledef_available(cat) == cat.tabledefProcs > 0

\* What SELECT pg_get_tabledef(...) does: raises, returns NULL, or returns a text.
TextChars == {"x", ";", " "}
Texts == UNION {[1..n -> TextChars] : n \in 0..MaxTextLen}
NativeOutcomes ==
    {[kind |-> "raise", text |-> <<>>], [kind |-> "null", text |-> <<>>]}
    \cup {[kind |-> "text", text |-> s] : s \in Texts}

NoDDL == [table |-> Ident(0), col_lines |-> <<>>]

Raised(kind, queries) ==
    [kind |-> kind, native |-> FALSE, text |-> <<>>, ddl |-> NoDDL, queries |-> queries]

\* table_schema with the probe result of the previous call kept.
table_schema_cached_probe(cat, table_name, native, failAt) ==
    LET probe == IF resp.op = "table_schema" THEN resp.probe
                 ELSE redshift_pg_get_tabledef_available(cat)
        q1 == <<"probe">>
        q2 == IF probe THEN q1 \o <<"native">> ELSE q1
        q3 == q2 \o <<"exists">>
        q4 == q3 \o <<"columns">>
        q5 == q4 \o <<"constraints">>
        rel == cat.rels[table_name]
        cols == IF rel.relkind \in {"r", "p"} THEN rel.cols ELSE <<>>
        constraints == IF rel.relkind = "-" THEN <<>> ELSE OrderConstraints(rel.cons)
        col_lines == [i \in 1..Len(cols) |-> ColumnParts(cols[i])]
                     \o [i \in 1..Len(constraints) |-> ConstraintParts(constraints[i])]
    IN  IF failAt = 1 THEN Raised("QueryError", q1)
        ELSE IF probe /\ (failAt = 2 \/ native.kind = "raise") THEN Raised("QueryError", q2)
        ELSE IF probe /\ native.kind = "text" /\ native.text # <<>>
        THEN [kind |-> "ok", native |-> TRUE, text |-> rstrip(native.text) \o <<";">>,
              ddl |-> NoDDL, queries |-> q2]
        ELSE IF failAt = Len(q3) THEN Raised("QueryError", q3)
        ELSE IF ~IsBaseTable(cat, table_name) THEN Raised("ValueError", q3)
        ELSE IF failAt = Len(q4) THEN Raised("QueryError", q4)
        ELSE IF failAt = Len(q5) THEN Raised("QueryError", q5)
        ELSE [kind |-> "ok", native |-> FALSE, text |-> <<>>,
              ddl |-> [table |-> Ident(table_name), col_lines |-> col_lines],
              queries |-> q5]

\* table_schema(table_name, schema): native is what pg_get_tabledef does when
\* called, failAt the position in the call of a query that the connection
\* fails (0: none fails).
table_schema(cat, table_name, native, failAt) ==
    LET probe == redshift_pg_get_tabledef_available(cat)
        q1 == <<"probe">>
        q2 == IF probe THEN q1 \o <<"native">> ELSE q1
        q3 == q2 \o <<"exists">>
        q4 == q3 \o <<"columns">>
        q5 == q4 \o <<"constraints">>
        rel == cat.rels[table_name]
        cols == IF rel.relkind \in {"r", "p"} THEN rel.cols ELSE <<>>
        constraints == IF rel.relkind = "-" THEN <<>> ELSE OrderConstraints(rel.cons)
        col_lines == [i \in 1..Len(cols) |-> ColumnParts(cols[i])]
                     \o [i \in 1..Len(constraints) |-> ConstraintParts(constraints[i])]
    IN  IF failAt = 1 THEN Raised("QueryError", q1)
        ELSE IF probe /\ (failAt = 2 \/ native.kind = "raise") THEN Raised("QueryError", q2)
        ELSE IF probe /\ native.kind = "text" /\ native.text # <<>>
        THEN [kind |-> "ok", native |-> TRUE, text |-> rstrip(native.text) \o <<";">>,
              ddl |-> NoDDL, queries |-> q2]
        ELSE IF failAt = Len(q3) THEN Raised("QueryError", q3)
        ELSE IF ~IsBaseTable(cat, table_name) THEN Raised("ValueError", q3)
        ELSE IF failAt = Len(q4) THEN Raised("QueryError", q4)
        ELSE IF failAt = Len(q5) THEN Raised("QueryError", q5)
        ELSE [kind |-> "ok", native |-> FALSE, text |-> <<>>,
              ddl |-> [table |-> Ident(table_name), col_lines |-> col_lines],
              queries |-> q5]

(***************************************************************************)
(* Cursors of the shared connection                                        *)
(***************************************************************************)
\* conn.cursor()
AcquireCursor(n) == n + 1

\* A release that closes the cursor only when the block returned.
ReleaseCursorOnSuccessOnly(n, raised) == IF raised THEN n ELSE n - 1

\* Leaving "with ... as cur": the cursor is closed, whether the block
\* returned or raised.
ReleaseCursor(n, raised) == n - 1

\* aws_db_connection.execute: one cursor for one query.
execute(n, raised) == ReleaseCursor(AcquireCursor(n), raised)

\* k consecutive execute calls, of which only the last can have raised.
RECURSIVE executeMany(_, _, _)
executeMany(n, k, lastRaised) ==
    IF k = 0 THEN n
    ELSE IF k = 1 THEN execute(n, lastRaised)
    ELSE executeMany(execute(n, FALSE), k - 1, lastRaised)

(***************************************************************************)
(* State                                                                   *)
(***************************************************************************)
\* Database names: DB_NAME, another database of the server, one that is not there yet.
DbNames == {"postgres", "app", "new"}

NoDb == [rels |-> [t \in RelNames |-> NoRel], inherits |-> {}, tabledefProcs |-> -1]

NoConnReq == [pc |-> "idle", name |-> None, last |-> "none"]
NothingRead == [listing |-> {}, ddl |-> {}, cursor |-> {}, conns |-> {}]

\* db = aws_db_connection(); _current_db = DB_NAME or "postgres": the first
\* connection, to database "postgres" (whose catalog is the variable catalog)
\* of a server that has the other databases others.
ConnInit(others) ==
    /\ server = others
    /\ conn = [id |-> 0, db |-> "postgres", open |-> TRUE]
    /\ current_db = "postgres"
    /\ connReq = NoConnReq
    /\ cursorConn = 0
    /\ readFrom = NothingRead

NoReq == [op |-> "none"]
NoResp == [op |-> "none", kind |-> "none"]

\* The result of one table_schema call, with the inputs it was given.
TableSchemaResp(cat, t, native, failAt) ==
    LET r == table_schema(cat, t, native, failAt)
    IN [op |-> "table_schema", arg |-> t, probe |-> redshift_pg_get_tabledef_available(cat),
        nativeIn |-> native, failAt |-> failAt,
        kind |-> r.kind, native |-> r.native, text |-> r.text, ddl |-> r.ddl,
        queries |-> r.queries]

\* db.table_schema(t) called directly.
TableSchemaCall(t, native, failAt) ==
    /\ pc = "idle"
    /\ resp' = TableSchemaResp(catalog, t, native, failAt)
    /\ openCursors' = executeMany(openCursors, Len(resp'.queries), resp'.kind = "QueryError")
    /\ UNCHANGED <<catalog, pc, req, envSteps>>

(***************************************************************************)
(* The tables table_schema is checked on                                   *)
(***************************************************************************)
Column(i, not_null, default_expr, identity_kind) ==
    [attname |-> ColNames[i], data_type |-> "integer", not_null |-> not_null,
     default_expr |-> default_expr, identity_kind |-> identity_kind]

ColumnsAt(i) ==
    {Column(i, nn, d, k) : nn \in BOOLEAN, d \in {None, "0"}, k \in IdentityKinds}

ColumnLists ==
    UNION {{cs \in [1..n -> UNION {ColumnsAt(i) : i \in 1..n}] :
                \A i \in 1..n : cs[i] \in ColumnsAt(i)} : n \in 0..MaxCols}

Constraint(conname, contype) ==
    [conname |-> conname, contype |-> contype, condef |-> condefOf(contype)]

\* Constraint names are unique in a table and a table has at most one primary key.
ConstraintSets ==
    {cs \in SUBSET {Constraint(n, k) : n \in ConNames, k \in Contypes} :
        /\ \A c1, c2 \in cs : c1.conname = c2.conname => c1 = c2
        /\ Cardinality({c \in cs : c.contype = "p"}) <= 1}

\* Tables that vary in their columns, and tables that vary in their constraints;
\* of each, an ordinary one and one partitioned by its first column.
DDLTables ==
    LET fixedCols == <<Column(1, TRUE, None, ""), Column(2, FALSE, None, "")>>
        fixedCons == {Constraint(1, "p")}
        shapes == {<<cols, fixedCons>> : cols \in ColumnLists}
                  \cup {<<fixedCols, cons>> : cons \in ConstraintSets}
    IN {Rel("r", s[1], s[2], None, <<>>, None, {}) : s \in shapes}
       \cup {Rel("p", s[1], s[2], "r", <<1>>, None, {}) : s \in {x \in shapes : x[1] # <<>>}}

NoNative == [kind |-> "null", text |-> <<>>]

\* What pg_get_tabledef does during a snapshot: raises, returns NULL, returns a text.
SnapshotNatives ==
    {[kind |-> "raise", text |-> <<>>], NoNative, [kind |-> "text", text |-> <<"x">>]}

\* The inputs of one call: what pg_get_tabledef does (it is called only when the
\* probe finds it) and which query, if any, the connection fails.
CallInputs(cat, natives) ==
    {<<NoNative, f>> : f \in 0..5}
    \cup {<<n, 0>> : n \in IF redshift_pg_get_tabledef_available(cat) THEN natives ELSE {}}

InitDDL ==
    /\ \E rel \in DDLTables, procs \in 0..1 :
          catalog = [rels |-> [t \in RelNames |-> IF t = 1 THEN rel ELSE NoRel],
                     inherits |-> {}, tabledefProcs |-> procs]
    /\ pc = "idle"
    /\ req = NoReq
    /\ resp = NoResp
    /\ openCursors = 0
    /\ envSteps = 0
    /\ ConnInit([d \in DbNames |-> NoDb])

\* One call of table_schema on the table drawn, or on a name that is no relation.
NextDDL ==
    \E t \in {1, 2}, in \in CallInputs(catalog, NativeOutcomes) :
        resp = NoResp /\ TableSchemaCall(t, in[1], in[2]) /\ UNCHANGED connVars

SpecDDL == InitDDL /\ [][NextDDL]_vars

(***************************************************************************)
(* Re-execution of a generated statement in an empty schema                *)
(***************************************************************************)
contypeOfDef(condef) == CHOOSE k \in Contypes : condefOf(k) = condef

IsConstraintLine(line) == line[1] = Word("CONSTRAINT")

HasPart(line, part) == \E i \in 3..Len(line) : line[i] = part

\* The column a column line declares. An identity column is NOT NULL.
ParseColumn(line) ==
    LET idk == IF HasPart(line, Word("GENERATED ALWAYS AS IDENTITY")) THEN "a"
               ELSE IF HasPart(line, Word("GENERATED BY DEFAULT AS IDENTITY")) THEN "d"
               ELSE ""
        defaults == {i \in 3..Len(line) : line[i].k = "default"}
    IN [attname |-> line[1].v, data_type |-> line[2].v,
        not_null |-> HasPart(line, Word("NOT NULL")) \/ idk # "",
        default_expr |-> IF defaults = {} THEN None ELSE line[CHOOSE i \in defaults : TRUE].v,
        identity_kind |-> idk]

ParseConstraint(line) ==
    [conname |-> line[2].v, contype |-> contypeOfDef(line[3].v), condef |-> line[3].v]

RECURSIVE SelectLines(_, _)
SelectLines(lines, wantConstraint) ==
    IF lines = <<>> THEN <<>>
    ELSE (IF IsConstraintLine(Head(lines)) = wantConstraint THEN <<Head(lines)>> ELSE <<>>)
         \o SelectLines(Tail(lines), wantConstraint)

\* CREATE TABLE name (lines): the statement has no PARTITION BY clause, so the
\* table it creates is an ordinary one.
ExecDDL(ddl) ==
    LET colLines == SelectLines(ddl.col_lines, FALSE)
        conLines == SelectLines(ddl.col_lines, TRUE)
    IN Rel("r", [i \in 1..Len(colLines) |-> ParseColumn(colLines[i])],
           {ParseConstraint(conLines[i]) : i \in 1..Len(conLines)},
           None, <<>>, None, {})

\* A table as the engine can hold it: no column has both an identity and a
\* default, and an identity column is NOT NULL.
ValidTable(rel) ==
    \A i \in 1..Len(rel.cols) :
        rel.cols[i].identity_kind # "" =>
            rel.cols[i].default_expr = None /\ rel.cols[i].not_null

StructurallyEquivalent(r1, r2) ==
    /\ r1.cols = r2.cols
    /\ r1.cons = r2.cons
    /\ (r1.relkind = "p") = (r2.relkind = "p")
    /\ r1.partattrs = r2.partattrs

(***************************************************************************)
(* Claims about table_schema                                               *)
(***************************************************************************)
\* A table_schema call that returned a reconstructed statement.
Reconstructed == resp.op = "table_schema" /\ resp.kind = "ok" /\ ~resp.native

ConstraintLinesOf(r) == SelectLines(r.ddl.col_lines, TRUE)

\* C1: in every reconstructed statement, every primary-key constraint comes
\* before every unique, foreign-key, check and exclusion constraint, and
\* constraints of the same kind are in ascending name order.
C1_PrimaryKeyFirst ==
    Reconstructed =>
        LET cl == ConstraintLinesOf(resp)
            kind(i) == ParseConstraint(cl[i]).contype
            name(i) == ParseConstraint(cl[i]).conname
        IN \A i, j \in 1..Len(cl) :
              i < j => /\ ~(kind(j) = "p" /\ kind(i) # "p")
                       /\ (kind(i) = kind(j) => name(i) < name(j))

\* C2: executing a reconstructed statement in an empty schema gives a table
\* structurally equivalent to the table it was reconstructed from.
C2_RoundTrip ==
    (Reconstructed /\ ValidTable(catalog.rels[resp.arg])) =>
        StructurallyEquivalent(ExecDDL(resp.ddl), catalog.rels[resp.arg])

\* C3: a column line never carries both an identity clause and a DEFAULT
\* clause; identity kind a or d gives exactly the matching identity clause and
\* no DEFAULT; a DEFAULT is rendered only for identity kind none with a default
\* expression.
C3_IdentityOrDefault ==
    Reconstructed =>
        LET cols == catalog.rels[resp.arg].cols
            lines == SelectLines(resp.ddl.col_lines, FALSE)
            always == Word("GENERATED ALWAYS AS IDENTITY")
            bydefault == Word("GENERATED BY DEFAULT AS IDENTITY")
            hasDefault(l) == \E i \in 1..Len(l) : l[i].k = "default"
            count(l, part) == Cardinality({i \in 1..Len(l) : l[i] = part})
        IN /\ Len(lines) = Len(cols)
           /\ \A i \in 1..Len(cols) :
                /\ ~(hasDefault(lines[i])
                     /\ count(lines[i], always) + count(lines[i], bydefault) > 0)
                /\ cols[i].identity_kind = "a" =>
                      /\ count(lines[i], always) = 1
                      /\ count(lines[i], bydefault) = 0
                      /\ ~hasDefault(lines[i])
                /\ cols[i].identity_kind = "d" =>
                      /\ count(lines[i], bydefault) = 1
                      /\ count(lines[i], always) = 0
                      /\ ~hasDefault(lines[i])
                /\ hasDefault(lines[i]) =>
                      /\ cols[i].identity_kind = ""
                      /\ cols[i].default_expr \notin {None, ""}
                      /\ HasPart(lines[i], Default(cols[i].default_expr))

\* C3 witness: a statement was reconstructed for a table of which the catalog
\* reports a column with both an identity kind and a default expression.
C3_Witness ==
    /\ Reconstructed
    /\ \E i \in 1..Len(catalog.rels[resp.arg].cols) :
          /\ catalog.rels[resp.arg].cols[i].identity_kind = "a"
          /\ catalog.rels[resp.arg].cols[i].default_expr = "0"

\* C4: table_schema for a name that is not a base table fails with the
\* table-not-found error, whatever the probe and the native function do
\* (no query is failed by the connection).
C4_MissingTableNotFound ==
    (resp.op = "table_schema" /\ resp.failAt = 0 /\ ~IsBaseTable(catalog, resp.arg)) =>
        resp.kind = "ValueError"

\* out is text with its trailing semicolons replaced by a single one.
EndsInOneSemicolon(text, out) ==
    \E k \in 0..Len(text) :
        /\ out = SubSeq(text, 1, k) \o <<";">>
        /\ k > 0 => text[k] # ";"
        /\ \A j \in (k + 1)..Len(text) : text[j] = ";"

NativeReturnsText(r) == r.probe /\ r.nativeIn.kind = "text" /\ r.nativeIn.text # <<>>

\* C5: when the probe finds the native function and it returns a non-empty
\* text, that text is returned, ending in a single semicolon, and no existence,
\* column or constraint query is issued; when the probe finds nothing or the
\* function returns nothing, the call goes on to the existence check and, for
\* a base table, the reconstruction.
C5_NativeFastPath ==
    (resp.op = "table_schema" /\ resp.failAt = 0) =>
        /\ NativeReturnsText(resp) =>
              /\ resp.kind = "ok" /\ resp.native
              /\ EndsInOneSemicolon(resp.nativeIn.text, resp.text)
              /\ resp.queries = <<"probe", "native">>
        /\ (~resp.probe \/ resp.nativeIn.kind = "null"
               \/ (resp.nativeIn.kind = "text" /\ resp.nativeIn.text = <<>>)) =>
              /\ \E i \in 1..Len(resp.queries) : resp.queries[i] = "exists"
              /\ IF IsBaseTable(catalog, resp.arg)
                 THEN /\ Reconstructed
                      /\ resp.queries[Len(resp.queries)] = "constraints"
                 ELSE resp.kind = "ValueError"

\* C5 witness: the native function returned a text with several trailing
\* semicolons and the call returned.
C5_Witness ==
    /\ resp.op = "table_schema" /\ resp.kind = "ok" /\ resp.native
    /\ resp.nativeIn.text = <<"x", ";">>

(***************************************************************************)
(* Catalog queries of list_tables and api_table_schemas                    *)
(***************************************************************************)
\* list_tables: base tables of the schema, ORDER BY table_name.
list_tables(cat) == SortNums({t \in RelNames : IsBaseTable(cat, t)})

RECURSIVE Concat(_)
Concat(seqs) == IF seqs = <<>> THEN <<>> ELSE Head(seqs) \o Concat(Tail(seqs))

Present(cat) == {t \in RelNames : cat.rels[t].relkind # "-"}

\* pg_indexes: the indexes of tables, partitioned tables and materialized
\* views, ORDER BY tablename, indexname.
pg_indexes(cat) ==
    LET owners == SortNums({t \in Present(cat) : cat.rels[t].relkind \in {"r", "p", "m"}})
        rowsOf(t) == LET names == SortNums(cat.rels[t].indexes)
                     IN [i \in 1..Len(names) |->
                            [tablename |-> t, indexname |-> names[i], indexdef |-> "CREATE INDEX"]]
    IN Concat([i \in 1..Len(owners) |-> rowsOf(owners[i])])

strategyName(partstrat) ==
    CASE partstrat = "l" -> "LIST"
      [] partstrat = "r" -> "RANGE"
      [] partstrat = "h" -> "HASH"

\* The partitioned-parents query: one row per partitioned table, with
\* array_agg(a.attname ORDER BY a.attnum) over the columns of its key.
partitioned_parents(cat) ==
    LET parents == SortNums({t \in Present(cat) : cat.rels[t].relkind = "p"})
        keyOf(t) == LET rel == cat.rels[t]
                        attnums == SortNums({rel.partattrs[i] : i \in 1..Len(rel.partattrs)})
                    IN [i \in 1..Len(attnums) |-> rel.cols[attnums[i]].attname]
    IN [i \in 1..Len(parents) |->
           [tablename |-> parents[i],
            strategy |-> strategyName(cat.rels[parents[i]].partstrat),
            key_columns |-> keyOf(parents[i])]]

\* The pg_inherits query: (parent, child, bound of the child),
\* ORDER BY parent.relname, child.relname.
inherits_rows(cat) ==
    LET parents == SortNums({l[1] : l \in cat.inherits})
        rowsOf(p) == LET children == SortNums({l[2] : l \in {x \in cat.inherits : x[1] = p}})
                     IN [i \in 1..Len(children) |->
                            [parent |-> p, child |-> children[i],
                             bounds |-> cat.rels[children[i]].relpartbound]]
    IN Concat([i \in 1..Len(parents) |-> rowsOf(parents[i])])

(***************************************************************************)
(* app.py: api_table_schemas, the loops over the rows                      *)
(***************************************************************************)
\* partitions[t] = {}: no key is set.
EmptyInfo ==
    [is_partitioned |-> FALSE, strategy |-> None, key_columns |-> <<>>, children |-> <<>>,
     is_partition |-> FALSE, parent |-> 0, bounds |-> ""]

\* collect_indexes that gives every table name of a row a key.
RECURSIVE collect_indexes_any_name(_, _)
collect_indexes_any_name(indexes, rows) ==
    IF rows = <<>> THEN indexes
    ELSE LET r == Head(rows)
             entry == [name |-> r.indexname, def |-> r.indexdef]
             next == [t \in DOMAIN indexes \cup {r.tablename} |->
                         IF t = r.tablename
                         THEN (IF t \in DOMAIN indexes THEN indexes[t] ELSE <<>>) \o <<entry>>
                         ELSE indexes[t]]
         IN collect_indexes_any_name(next, Tail(rows))

\* for tablename, indexname, indexdef in rows: if tablename in indexes: append
RECURSIVE collect_indexes(_, _)
collect_indexes(indexes, rows) ==
    IF rows = <<>> THEN indexes
    ELSE LET r == Head(rows)
             next == IF r.tablename \in DOMAIN indexes
                     THEN [indexes EXCEPT ![r.tablename] =
                              Append(@, [name |-> r.indexname, def |-> r.indexdef])]
                     ELSE indexes
         IN collect_indexes(next, Tail(rows))

\* for tablename, strategy, key_columns in rows: if tablename in partitions: update
RECURSIVE collect_parents(_, _)
collect_parents(partitions, rows) ==
    IF rows = <<>> THEN partitions
    ELSE LET r == Head(rows)
             next == IF r.tablename \in DOMAIN partitions
                     THEN [partitions EXCEPT ![r.tablename] =
                              [@ EXCEPT !.is_partitioned = TRUE, !.strategy = r.strategy,
                                        !.key_columns = r.key_columns, !.children = <<>>]]
                     ELSE partitions
         IN collect_parents(next, Tail(rows))

\* bounds or ""
BoundsText(bounds) == IF Truthy(bounds) THEN bounds ELSE ""

\* collect_links that lists children only under declared partitioned parents.
RECURSIVE collect_links_declared_only(_, _)
collect_links_declared_only(partitions, rows) ==
    IF rows = <<>> THEN partitions
    ELSE LET r == Head(rows)
             listed == IF r.parent \in DOMAIN partitions /\ partitions[r.parent].is_partitioned
                       THEN [partitions EXCEPT ![r.parent].children =
                                Append(@, [name |-> r.child, bounds |-> BoundsText(r.bounds)])]
                       ELSE partitions
             marked == IF r.child \in DOMAIN partitions
                       THEN [listed EXCEPT ![r.child] =
                                [@ EXCEPT !.is_partition = TRUE, !.parent = r.parent,
                                          !.bounds = BoundsText(r.bounds)]]
                       ELSE listed
         IN collect_links_declared_only(marked, Tail(rows))

\* for parent, child, bounds in rows: list the child under the parent, mark the child
RECURSIVE collect_links(_, _)
collect_links(partitions, rows) ==
    IF rows = <<>> THEN partitions
    ELSE LET r == Head(rows)
             synth == IF r.parent \in DOMAIN partitions /\ ~partitions[r.parent].is_partitioned
                      THEN [partitions EXCEPT ![r.parent] =
                               [@ EXCEPT !.is_partitioned = TRUE, !.strategy = None,
                                         !.key_columns = <<>>, !.children = <<>>]]
                      ELSE partitions
             listed == IF r.parent \in DOMAIN partitions
                       THEN [synth EXCEPT ![r.parent].children =
                                Append(@, [name |-> r.child, bounds |-> BoundsText(r.bounds)])]
                       ELSE synth
             marked == IF r.child \in DOMAIN partitions
                       THEN [listed EXCEPT ![r.child] =
                                [@ EXCEPT !.is_partition = TRUE, !.parent = r.parent,
                                          !.bounds = BoundsText(r.bounds)]]
                       ELSE listed
         IN collect_links(marked, Tail(rows))

(***************************************************************************)
(* Requests: list_table_schemas and GET /api/table-schemas, query by query *)
(***************************************************************************)
SnapshotOps == {"list_table_schemas", "api_table_schemas"}

ToSet(seq) == {seq[i] : i \in 1..Len(seq)}

\* The call ends with the exception e: list_table_schemas lets it through,
\* api_table_schemas answers {"error": str(e)}, 400. Neither returns a mapping.
Failure(op, listed, raised, at) ==
    [op |-> op, kind |-> "error", error |-> raised[1], listed |-> listed, raised |-> raised,
     at |-> at,
     tables |-> <<>>, ddl |-> <<>>, indexes |-> <<>>, partitions |-> <<>>, links |-> <<>>]

\* The dict comprehension skipping a table whose synthesis raised.
comprehension_step_skipping(rq, r) ==
    IF r.kind = "ok"
    THEN [pc |-> "synth",
          req |-> [rq EXCEPT !.i = @ + 1,
                             !.mapping = [t \in DOMAIN rq.mapping \cup {rq.tables[rq.i]} |->
                                             IF t = rq.tables[rq.i] THEN r ELSE rq.mapping[t]]],
          resp |-> NoResp]
    ELSE [pc |-> "synth",
          req |-> [rq EXCEPT !.i = @ + 1, !.raised = Append(@, r.kind)],
          resp |-> NoResp]

\* {t: self.table_schema(t, schema=schema) for t in tables}, one table: the
\* statement is stored, or the exception ends the call.
comprehension_step(rq, r) ==
    IF r.kind = "ok"
    THEN [pc |-> "synth",
          req |-> [rq EXCEPT !.i = @ + 1,
                             !.mapping = [t \in DOMAIN rq.mapping \cup {rq.tables[rq.i]} |->
                                             IF t = rq.tables[rq.i] THEN r ELSE rq.mapping[t]]],
          resp |-> NoResp]
    ELSE [pc |-> "idle", req |-> NoReq,
          resp |-> Failure(rq.op, rq.tables, Append(rq.raised, r.kind), "synth")]

\* The call starts: list_tables.
BeginSnapshot(op, fail) ==
    /\ pc = "idle"
    /\ openCursors' = execute(openCursors, fail)
    /\ IF fail
       THEN /\ resp' = Failure(op, <<>>, <<"QueryError">>, "list")
            /\ UNCHANGED <<pc, req>>
       ELSE /\ pc' = "synth"
            /\ req' = [op |-> op, tables |-> list_tables(catalog), i |-> 1, mapping |-> <<>>,
                       raised |-> <<>>, table_names |-> <<>>, indexes |-> <<>>,
                       partitions |-> <<>>, links |-> <<>>]
            /\ resp' = NoResp
    /\ UNCHANGED <<catalog, envSteps>>

\* table_schema of the next listed table.
Synthesize(native, failAt) ==
    /\ pc = "synth"
    /\ req.i <= Len(req.tables)
    /\ LET r == table_schema(catalog, req.tables[req.i], native, failAt)
           after == comprehension_step(req, [kind |-> r.kind, native |-> r.native,
                                             text |-> r.text, ddl |-> r.ddl])
       IN /\ openCursors' = executeMany(openCursors, Len(r.queries), r.kind = "QueryError")
          /\ pc' = after.pc
          /\ req' = after.req
          /\ resp' = after.resp
    /\ UNCHANGED <<catalog, envSteps>>

\* list_table_schemas returns the mapping.
ReturnMapping ==
    /\ pc = "synth"
    /\ req.op = "list_table_schemas"
    /\ req.i > Len(req.tables)
    /\ resp' = [op |-> req.op, kind |-> "ok", error |-> None, listed |-> req.tables, at |-> "end",
                raised |-> req.raised, tables |-> <<>>, ddl |-> req.mapping,
                indexes |-> <<>>, partitions |-> <<>>, links |-> <<>>]
    /\ pc' = "idle"
    /\ req' = NoReq
    /\ UNCHANGED <<catalog, openCursors, envSteps>>

\* indexes = {t: [] for t in table_names}
init_indexes(table_names) == [t \in ToSet(table_names) |-> <<>>]

\* partitions = {t: {} for t in table_names}
init_partitions(table_names) == [t \in ToSet(table_names) |-> EmptyInfo]

\* The with block is left by an exception: the cursor is released and the
\* handler answers the error.
QueryFailed ==
    /\ openCursors' = ReleaseCursor(openCursors, TRUE)
    /\ resp' = Failure(req.op, req.tables, Append(req.raised, "QueryError"), pc)
    /\ pc' = "idle"
    /\ req' = NoReq

\* api_table_schemas after list_table_schemas returned: sorted table names,
\* empty index and partition entries, the cursor, the index query.
QueryIndexes(fail) ==
    /\ pc = "synth"
    /\ req.op = "api_table_schemas"
    /\ req.i > Len(req.tables)
    /\ LET table_names == SortNums(DOMAIN req.mapping)
       IN IF fail
          THEN /\ openCursors' = ReleaseCursor(AcquireCursor(openCursors), TRUE)
               /\ resp' = Failure(req.op, req.tables, <<"QueryError">>, "indexes")
               /\ pc' = "idle"
               /\ req' = NoReq
          ELSE /\ openCursors' = AcquireCursor(openCursors)
               /\ req' = [req EXCEPT !.table_names = table_names,
                                     !.indexes = collect_indexes(init_indexes(table_names),
                                                                 pg_indexes(catalog)),
                                     !.partitions = init_partitions(table_names)]
               /\ pc' = "parents"
               /\ resp' = NoResp
    /\ UNCHANGED <<catalog, envSteps>>

\* The partitioned-parents query.
QueryParents(fail) ==
    /\ pc = "parents"
    /\ IF fail
       THEN QueryFailed
       ELSE /\ req' = [req EXCEPT !.partitions =
                                     collect_parents(@, partitioned_parents(catalog))]
            /\ pc' = "links"
            /\ UNCHANGED <<resp, openCursors>>
    /\ UNCHANGED <<catalog, envSteps>>

\* The pg_inherits query; the with block ends and the snapshot is returned.
QueryLinks(fail) ==
    /\ pc = "links"
    /\ IF fail
       THEN QueryFailed
       ELSE /\ openCursors' = ReleaseCursor(openCursors, FALSE)
            /\ resp' = [op |-> req.op, kind |-> "ok", error |-> None, listed |-> req.tables, at |-> "end",
                        raised |-> req.raised, tables |-> req.table_names,
                        ddl |-> req.mapping, indexes |-> req.indexes,
                        partitions |-> collect_links(req.partitions, inherits_rows(catalog)),
                        links |-> inherits_rows(catalog)]
            /\ pc' = "idle"
            /\ req' = NoReq
    /\ UNCHANGED <<catalog, envSteps>>

(***************************************************************************)
(* Other calls on the shared connection                                    *)
(***************************************************************************)
\* db.execute(query), as /healthz calls it.
ExecuteCall(fail) ==
    /\ pc = "idle"
    /\ openCursors' = execute(openCursors, fail)
    /\ resp' = [op |-> "execute", kind |-> IF fail THEN "QueryError" ELSE "ok"]
    /\ UNCHANGED <<catalog, pc, req, envSteps>>

\* db.list_tables()
ListTablesCall(fail) ==
    /\ pc = "idle"
    /\ openCursors' = execute(openCursors, fail)
    /\ resp' = IF fail THEN [op |-> "list_tables", kind |-> "QueryError", tables |-> <<>>]
               ELSE [op |-> "list_tables", kind |-> "ok", tables |-> list_tables(catalog)]
    /\ UNCHANGED <<catalog, pc, req, envSteps>>

\* POST /api/sql: _exec refuses an empty query before it opens a cursor, and
\* turns any exception of the query into BadRequest.
ApiSql(empty, fail) ==
    /\ pc = "idle"
    /\ openCursors' = IF empty THEN openCursors
                      ELSE ReleaseCursor(AcquireCursor(openCursors), fail)
    /\ resp' = [op |-> "api_sql", kind |-> IF empty \/ fail THEN "BadRequest" ELSE "ok"]
    /\ UNCHANGED <<catalog, pc, req, envSteps>>

(***************************************************************************)
(* The database and its other clients                                      *)
(***************************************************************************)
\* pg_get_expr(relpartbound): the bound of relation c when it is a partition.
BoundOf(c) == <<"FOR VALUES IN (1)", "FOR VALUES IN (2)", "FOR VALUES IN (3)",
                "FOR VALUES IN (4)", "FOR VALUES IN (5)">>[c]

TwoColumns == <<Column(1, TRUE, None, ""), Column(2, FALSE, "0", "")>>

\* The relations a schema holds here: a table with a primary key and its
\* index, a table partitioned by (b, a) that has no index, a foreign table,
\* a materialized view with an index.
RelTemplates ==
    {Rel("r", TwoColumns, {Constraint(1, "p")}, None, <<>>, None, {1}),
     Rel("p", TwoColumns, {}, "r", <<2, 1>>, None, {}),
     Rel("f", TwoColumns, {}, None, <<>>, None, {}),
     Rel("m", <<>>, {}, None, <<>>, None, {1})}

ParentsOf(links, c) == {l[1] : l \in {x \in links : x[2] = c}}
ChildrenOf(links, p) == {l[2] : l \in {x \in links : x[1] = p}}

RECURSIVE Descendants(_, _, _)
Descendants(links, S, n) ==
    IF n = 0 THEN S
    ELSE Descendants(links, S \cup UNION {ChildrenOf(links, x) : x \in S}, n - 1)

\* pg_inherits as the engine allows it: a partitioned table is the only parent
\* of its partitions; a plain or foreign table inherits from plain tables only;
\* a partition that is not itself partitioned has no children; no cycles.
LinksAllowed(kind, links) ==
    /\ \A l \in links :
          /\ l[1] # l[2]
          /\ kind[l[1]] \in {"r", "p"}
          /\ kind[l[2]] \in {"r", "p", "f"}
          /\ kind[l[2]] = "p" => kind[l[1]] = "p"
          /\ kind[l[1]] = "p" => ParentsOf(links, l[2]) = {l[1]}
          /\ (kind[l[1]] = "p" /\ kind[l[2]] # "p") => ChildrenOf(links, l[2]) = {}
    /\ \A t \in RelNames :
          t \notin Descendants(links, ChildrenOf(links, t), Cardinality(RelNames))

IsPartition(kind, links, c) == \E p \in ParentsOf(links, c) : kind[p] = "p"

\* The links the kinds of the relations allow one by one.
LinkCandidates(rels) ==
    {l \in RelNames \X RelNames :
        /\ l[1] # l[2]
        /\ rels[l[1]].relkind \in {"r", "p"}
        /\ rels[l[2]].relkind \in {"r", "p", "f"}
        /\ rels[l[2]].relkind = "p" => rels[l[1]].relkind = "p"}

\* The catalog of relations rels with inheritance links: a partition has its bound.
Catalog(rels, links, procs) ==
    LET kind == [t \in RelNames |-> rels[t].relkind]
    IN [rels |-> [t \in RelNames |->
                    IF IsPartition(kind, links, t)
                    THEN [rels[t] EXCEPT !.relpartbound = BoundOf(t)]
                    ELSE rels[t]],
        inherits |-> links, tabledefProcs |-> procs]

\* Another client drops a relation that has no children, while a request is
\* being handled (a change between two requests gives one of the initial catalogs).
DropRel(t) ==
    /\ envSteps < MaxEnvSteps
    /\ pc # "idle"
    /\ catalog.rels[t].relkind # "-"
    /\ ChildrenOf(catalog.inherits, t) = {}
    /\ catalog' = [catalog EXCEPT !.rels[t] = NoRel,
                                  !.inherits = {l \in @ : l[2] # t}]
    /\ envSteps' = envSteps + 1
    /\ UNCHANGED <<pc, req, resp, openCursors>>

\* Another client creates a relation, while a request is being handled.
CreateRel(t, rel) ==
    /\ envSteps < MaxEnvSteps
    /\ pc # "idle"
    /\ catalog.rels[t].relkind = "-"
    /\ catalog' = [catalog EXCEPT !.rels[t] = rel]
    /\ envSteps' = envSteps + 1
    /\ UNCHANGED <<pc, req, resp, openCursors>>

Init ==
    /\ \E rels \in [RelNames -> RelTemplates \cup {NoRel}], procs \in 0..1 :
          \E links \in SUBSET LinkCandidates(rels) :
              /\ LinksAllowed([t \in RelNames |-> rels[t].relkind], links)
              /\ catalog = Catalog(rels, links, procs)
    /\ pc = "idle"
    /\ req = NoReq
    /\ resp = NoResp
    /\ openCursors = 0
    /\ envSteps = 0
    /\ ConnInit([d \in DbNames |-> NoDb])

Next ==
    \/ (\E op \in SnapshotOps, fail \in BOOLEAN : BeginSnapshot(op, fail))
          /\ UNCHANGED connVars
    \/ (\E in \in CallInputs(catalog, SnapshotNatives) : Synthesize(in[1], in[2]))
          /\ UNCHANGED connVars
    \/ ReturnMapping /\ UNCHANGED connVars
    \/ (\E fail \in BOOLEAN : QueryIndexes(fail)) /\ UNCHANGED connVars
    \/ (\E fail \in BOOLEAN : QueryParents(fail)) /\ UNCHANGED connVars
    \/ (\E fail \in BOOLEAN : QueryLinks(fail)) /\ UNCHANGED connVars
    \/ (\E t \in {1, 2}, in \in CallInputs(catalog, SnapshotNatives) :
            TableSchemaCall(t, in[1], in[2])) /\ UNCHANGED connVars
    \/ (\E fail \in BOOLEAN : ExecuteCall(fail)) /\ UNCHANGED connVars
    \/ (\E fail \in BOOLEAN : ListTablesCall(fail)) /\ UNCHANGED connVars
    \/ (\E empty, fail \in BOOLEAN : ApiSql(empty, fail)) /\ UNCHANGED connVars
    \/ (\E t \in RelNames : DropRel(t)) /\ UNCHANGED connVars
    \/ (\E t \in RelNames, rel \in RelTemplates : CreateRel(t, rel)) /\ UNCHANGED connVars

Spec == Init /\ [][Next]_vars

(***************************************************************************)
(* Claims about list_table_schemas and GET /api/table-schemas              *)
(***************************************************************************)
SnapshotReturned == resp.op = "api_table_schemas" /\ resp.kind = "ok"

\* C6: a call in which a synthesis or a query raised ends with that error and
\* returns no ddl, index or partition mapping; a returned mapping has a
\* statement for every listed table.
C6_AtomicFailure ==
    resp.op \in SnapshotOps =>
        /\ resp.raised # <<>> =>
              /\ resp.kind = "error"
              /\ resp.error = resp.raised[1]
        /\ resp.kind = "error" =>
              /\ resp.raised # <<>>
              /\ resp.ddl = <<>> /\ resp.indexes = <<>> /\ resp.partitions = <<>>
        /\ resp.kind = "ok" =>
              /\ DOMAIN resp.ddl = ToSet(resp.listed)
              /\ \A t \in DOMAIN resp.ddl : resp.ddl[t].kind = "ok"

\* C6 witness: a snapshot listed a table that was gone when its statement was
\* to be synthesized, and answered the table-not-found error.
C6_Witness ==
    /\ resp.op = "api_table_schemas"
    /\ resp.kind = "error"
    /\ resp.error = "ValueError"
    /\ resp.listed # <<>>

\* C7: in a returned snapshot the keys of the index mapping are exactly the
\* tables of the snapshot.
C7_IndexKeys ==
    SnapshotReturned => DOMAIN resp.indexes = ToSet(resp.tables)

\* C7 witness: a snapshot of an unchanged schema that holds a table without
\* indexes and a materialized view with an index.
C7_Witness ==
    /\ SnapshotReturned
    /\ envSteps = 0
    /\ \E t \in DOMAIN resp.indexes : resp.indexes[t] = <<>>
    /\ \E t \in DOMAIN resp.indexes : resp.indexes[t] # <<>>
    /\ \E m \in RelNames : catalog.rels[m].relkind = "m"

ListsChild(info, l) ==
    /\ info.is_partitioned
    /\ \E j \in 1..Len(info.children) :
          info.children[j] = [name |-> l.child, bounds |-> BoundsText(l.bounds)]

\* C8 as claimed: for every link (P, C, bounds) the link query returned, the
\* entry of P is partitioned and lists C with that bounds text, and the entry
\* of C is a partition of parent P with the same bounds text.
C8_LinkageSymmetry ==
    SnapshotReturned =>
        \A i \in 1..Len(resp.links) :
            LET l == resp.links[i]
            IN /\ l.parent \in DOMAIN resp.partitions
               /\ ListsChild(resp.partitions[l.parent], l)
               /\ l.child \in DOMAIN resp.partitions
               /\ resp.partitions[l.child].is_partition
               /\ resp.partitions[l.child].parent = l.parent
               /\ resp.partitions[l.child].bounds = BoundsText(l.bounds)

\* The last parent of child c in the rows, which are ordered by parent name.
LastParent(rows, c) ==
    LET ps == {rows[i].parent : i \in {j \in 1..Len(rows) : rows[j].child = c}}
    IN CHOOSE p \in ps : \A q \in ps : q <= p

\* C8 as amended: for every link (P, C, bounds) the link query returned, if P
\* is a table of the snapshot its entry is partitioned and lists C with that
\* bounds text, and if C is a table of the snapshot its entry is a partition
\* with that bounds text whose parent is the last parent of C in name order
\* (P itself when C has one parent); the entry C names lists C if it exists.
C8_LinkageOfListedTables ==
    SnapshotReturned =>
        /\ DOMAIN resp.partitions = ToSet(resp.tables)
        /\ \A i \in 1..Len(resp.links) :
            LET l == resp.links[i]
            IN /\ l.parent \in DOMAIN resp.partitions =>
                     ListsChild(resp.partitions[l.parent], l)
               /\ l.child \in DOMAIN resp.partitions =>
                     /\ resp.partitions[l.child].is_partition
                     /\ resp.partitions[l.child].bounds = BoundsText(l.bounds)
                     /\ resp.partitions[l.child].parent = LastParent(resp.links, l.child)
                     /\ resp.partitions[l.child].parent \in DOMAIN resp.partitions =>
                           ListsChild(resp.partitions[resp.partitions[l.child].parent], l)

\* C8 witness: a snapshot in which a parent without partition key (its entry
\* has no strategy) lists two children, and both children name it.
C8_Witness ==
    /\ SnapshotReturned
    /\ \E p \in DOMAIN resp.partitions :
          /\ resp.partitions[p].is_partitioned
          /\ resp.partitions[p].strategy = None
          /\ Len(resp.partitions[p].children) = 2
          /\ \A j \in 1..2 :
                LET c == resp.partitions[p].children[j].name
                IN /\ c \in DOMAIN resp.partitions
                   /\ resp.partitions[c].is_partition
                   /\ resp.partitions[c].parent = p

\* C9: between calls no cursor of the shared connection is open.
C9_NoCursorLeft ==
    pc = "idle" => openCursors = 0

\* C9 witness: a snapshot ended with a query error raised inside its with
\* block, and no cursor is open.
C9_Witness ==
    /\ pc = "idle"
    /\ resp.op = "api_table_schemas"
    /\ resp.kind = "error"
    /\ resp.at \in {"parents", "links"}
    /\ openCursors = 0

\* The columns of the partition key of table t, in the order of the key.
KeyColumnsInKeyOrder(cat, t) ==
    [i \in 1..Len(cat.rels[t].partattrs) |->
        cat.rels[t].cols[cat.rels[t].partattrs[i]].attname]

\* C10: key_columns of a partitioned parent lists the key columns in the
\* order of their position in the partition key (the schema did not change
\* during the snapshot).
C10_KeyColumnsInKeyOrder ==
    (SnapshotReturned /\ envSteps = 0) =>
        \A t \in DOMAIN resp.partitions :
            catalog.rels[t].relkind = "p" =>
                resp.partitions[t].key_columns = KeyColumnsInKeyOrder(catalog, t)

(***************************************************************************)
(* POST /api/connect, handled while other requests use the connection      *)
(***************************************************************************)
\* The databases of the server when the application starts: "postgres" with one
\* table, "app" with a partitioned table and its partition; "new" is created by
\* the first connect_to that names it.
DbCatalog(d, procs) ==
    CASE d = "postgres" ->
            Catalog([t \in RelNames |->
                        IF t = 1 THEN Rel("r", TwoColumns, {Constraint(1, "p")}, None, <<>>, None, {1})
                        ELSE NoRel], {}, procs)
      [] d = "app" ->
            Catalog([t \in RelNames |->
                        IF t = 1 THEN Rel("p", TwoColumns, {}, "r", <<2, 1>>, None, {})
                        ELSE IF t = 2 THEN Rel("r", TwoColumns, {}, None, <<>>, None, {1})
                        ELSE NoRel], {<<1, 2>>}, procs)
      [] OTHER -> Catalog([t \in RelNames |-> NoRel], {}, 0)

\* The catalog of database d; NoDb when the server has no such database.
CatalogOf(d) == IF d = conn.db THEN catalog ELSE server[d]

\* A query on connection k succeeds only when k is db.conn and is open:
\* psycopg2 raises on a closed connection.
Usable(k) == conn.open /\ conn.id = k

\* A cursor that follows db.conn instead of its own connection.
cursor_connection_current(opened_on, current) == current

\* with db.conn.cursor() as cur: the cursor stays on the connection db.conn was
\* when the block was entered, whatever db.conn becomes.
cursor_connection(opened_on, current) == opened_on

\* api_connect_to up to self.conn.close(): the old connection is closed before
\* the new one is asked for.
ConnectClose(name) ==
    /\ connReq.pc = "idle"
    /\ conn.id < MaxConnects
    /\ conn' = [conn EXCEPT !.open = FALSE]
    /\ connReq' = [pc |-> "connecting", name |-> name, last |-> connReq.last]
    /\ UNCHANGED <<catalog, pc, req, resp, openCursors, envSteps,
                   server, current_db, cursorConn, readFrom>>

\* api_connect_to with an empty name: BadRequest before connect_to is called.
ConnectBadRequest ==
    /\ connReq.pc = "idle"
    /\ connReq.last # "BadRequest"
    /\ connReq' = [connReq EXCEPT !.last = "BadRequest"]
    /\ UNCHANGED <<catalog, pc, req, resp, openCursors, envSteps,
                   server, conn, current_db, cursorConn, readFrom>>

\* What psycopg2.connect does in _get_or_create_connection: connects, or
\* raises an OperationalError other than "does not exist".
ConnectOutcomes == {"ok", "refused"}

\* self.conn = self._get_or_create_connection(dbname), then _current_db =
\* dbname and the answer: a database that does not exist is created; an
\* exception leaves self.conn and _current_db as they are and is answered 400.
ConnectFinish(outcome) ==
    /\ connReq.pc = "connecting"
    /\ LET name == connReq.name
           found == CatalogOf(name)
           target == IF found = NoDb THEN DbCatalog(name, 0) ELSE found
       IN IF outcome = "ok"
          THEN /\ conn' = [id |-> conn.id + 1, db |-> name, open |-> TRUE]
               /\ catalog' = target
               /\ server' = [d \in DbNames |->
                                IF d = name THEN NoDb
                                ELSE IF d = conn.db THEN catalog ELSE server[d]]
               /\ current_db' = name
               /\ connReq' = [pc |-> "idle", name |-> None, last |-> "ok"]
          ELSE /\ connReq' = [pc |-> "idle", name |-> None, last |-> "error"]
               /\ UNCHANGED <<conn, catalog, server, current_db>>
    /\ UNCHANGED <<pc, req, resp, openCursors, envSteps, cursorConn, readFrom>>

\* The part of readFrom named part, with the connected database added.
Reading(part) ==
    [readFrom EXCEPT ![part] = @ \cup {conn.db}, !.conns = @ \cup {conn.id}]

\* list_tables on db.conn.
ConnBeginSnapshot(op, fail) ==
    /\ fail \/ Usable(conn.id)
    /\ BeginSnapshot(op, fail)
    /\ readFrom' = IF fail THEN NothingRead
                   ELSE [NothingRead EXCEPT !.listing = {conn.db}, !.conns = {conn.id}]
    /\ UNCHANGED <<server, conn, current_db, connReq, cursorConn>>

\* table_schema of the next listed table on db.conn: on a closed connection
\* its first query raises.
ConnSynthesize(native, failAt) ==
    /\ failAt = 1 \/ Usable(conn.id)
    /\ Synthesize(native, failAt)
    /\ readFrom' = IF pc' = "synth" THEN Reading("ddl") ELSE NothingRead
    /\ UNCHANGED <<server, conn, current_db, connReq, cursorConn>>

ConnReturnMapping ==
    /\ ReturnMapping
    /\ UNCHANGED connVars

\* with db.conn.cursor() as cur, and the index query on it.
ConnQueryIndexes(fail) ==
    /\ fail \/ Usable(conn.id)
    /\ QueryIndexes(fail)
    /\ cursorConn' = IF fail THEN cursorConn ELSE conn.id
    /\ readFrom' = IF fail THEN NothingRead ELSE Reading("cursor")
    /\ UNCHANGED <<server, conn, current_db, connReq>>

\* The partitioned-parents query on the cursor.
ConnQueryParents(fail) ==
    /\ fail \/ Usable(cursor_connection(cursorConn, conn.id))
    /\ QueryParents(fail)
    /\ readFrom' = IF fail THEN NothingRead ELSE Reading("cursor")
    /\ UNCHANGED <<server, conn, current_db, connReq, cursorConn>>

\* The pg_inherits query on the cursor.
ConnQueryLinks(fail) ==
    /\ fail \/ Usable(cursor_connection(cursorConn, conn.id))
    /\ QueryLinks(fail)
    /\ readFrom' = IF fail THEN NothingRead ELSE Reading("cursor")
    /\ UNCHANGED <<server, conn, current_db, connReq, cursorConn>>

\* db.table_schema(t) on db.conn.
ConnTableSchemaCall(t, native, failAt) ==
    /\ failAt = 1 \/ Usable(conn.id)
    /\ TableSchemaCall(t, native, failAt)
    /\ readFrom' = [NothingRead EXCEPT !.ddl = {conn.db}, !.conns = {conn.id}]
    /\ UNCHANGED <<server, conn, current_db, connReq, cursorConn>>

\* GET /healthz: db.execute("SELECT 1"); 200 with _current_db, or 500.
healthz(fail) ==
    /\ fail \/ Usable(conn.id)
    /\ ExecuteCall(fail)
    /\ readFrom' = NothingRead
    /\ UNCHANGED <<server, conn, current_db, connReq, cursorConn>>

\* What table_schema is given on db.conn: a closed connection fails its first query.
ConnCallInputs ==
    IF Usable(conn.id) THEN CallInputs(catalog, SnapshotNatives) ELSE {<<NoNative, 1>>}

InitConn ==
    /\ \E p1, p2 \in 0..1 :
          /\ catalog = DbCatalog("postgres", p1)
          /\ ConnInit([d \in DbNames |-> IF d = "app" THEN DbCatalog("app", p2) ELSE NoDb])
    /\ pc = "idle"
    /\ req = NoReq
    /\ resp = NoResp
    /\ openCursors = 0
    /\ envSteps = 0

NextConn ==
    \/ \E name \in DbNames : ConnectClose(name)
    \/ ConnectBadRequest
    \/ \E outcome \in ConnectOutcomes : ConnectFinish(outcome)
    \/ \E op \in SnapshotOps, fail \in BOOLEAN : ConnBeginSnapshot(op, fail)
    \/ \E in \in ConnCallInputs : ConnSynthesize(in[1], in[2])
    \/ ConnReturnMapping
    \/ \E fail \in BOOLEAN : ConnQueryIndexes(fail)
    \/ \E fail \in BOOLEAN : ConnQueryParents(fail)
    \/ \E fail \in BOOLEAN : ConnQueryLinks(fail)
    \/ \E t \in {1, 2}, in \in ConnCallInputs : ConnTableSchemaCall(t, in[1], in[2])
    \/ \E fail \in BOOLEAN : healthz(fail)

SpecConn == InitConn /\ [][NextConn]_vars

(***************************************************************************)
(* Claims about the shared connection                                      *)
(***************************************************************************)
\* Whether pg_get_tabledef is installed in database d.
HasTabledef(d) == CatalogOf(d).tabledefProcs > 0

Probes(queries) == {i \in 1..Len(queries) : queries[i] = "probe"}

\* C11: every table_schema call issues the capability probe exactly once, as
\* its first query, and takes the native path or the catalog path by the
\* capability of the database db.conn is connected to at that call, whatever
\* an earlier call found.
C11_ProbeEveryCall ==
    resp.op = "table_schema" =>
        /\ Probes(resp.queries) = {1}
        /\ resp.failAt # 1 =>
              \E d \in readFrom.ddl :
                  /\ readFrom.ddl = {d}
                  /\ ("native" \in ToSet(resp.queries)) = HasTabledef(d)
                  /\ resp.native => HasTabledef(d)
                  /\ (HasTabledef(d) /\ resp.kind = "ok" /\ NativeReturnsText(resp)) => resp.native

\* A call that took the native path on "app", which connect_to switched to
\* from a database that has no pg_get_tabledef.
C11_Witness ==
    /\ resp.op = "table_schema"
    /\ resp.kind = "ok"
    /\ resp.native
    /\ readFrom.ddl = {"app"}
    /\ conn.id = 1
    /\ ~HasTabledef("postgres")

DatabasesRead == readFrom.listing \cup readFrom.ddl \cup readFrom.cursor

\* C12, as stated: every successful /api/table-schemas response is read from
\* one database, for every interleaving with a /api/connect request.
C12_SingleDatabase ==
    SnapshotReturned => Cardinality(DatabasesRead) = 1

\* C12, amended: the index and partition queries of a successful response are
\* all read from one database, the one the cursor was opened on; the whole
\* response is read from one database when db.conn was one connection for
\* the whole request.
C12_SingleDatabasePerConnection ==
    SnapshotReturned =>
        /\ Cardinality(readFrom.cursor) = 1
        /\ Cardinality(readFrom.conns) = 1 => Cardinality(DatabasesRead) = 1

\* A successful response of a request during which connect_to replaced db.conn.
C12_Witness ==
    /\ SnapshotReturned
    /\ Cardinality(readFrom.conns) = 2
    /\ Cardinality(DatabasesRead) = 2
    /\ Cardinality(readFrom.cursor) = 1

\* C13: between /api/connect requests, _current_db names the database db.conn
\* is an open connection to.
C13_CurrentDbIsConnected ==
    connReq.pc = "idle" => conn.open /\ conn.db = current_db

====
